---- MODULE Spec2Model ----
(***************************************************************************)
(* State-machine model of the plasmactl self-update pipeline               *)
(* (skilld-labs/plasmactl-update): createUpdateAction, runUpdate,          *)
(* runCommands, initVars, getCredentials, validateCredentials,             *)
(* getStableRelease, downloadFile, installFile, setPermissions and         *)
(* exitWithError, together with the part of the file system, the secret    *)
(* store and the HTTP server those functions read and write.               *)
(***************************************************************************)
EXTENDS Integers, Sequences, FiniteSets, TLC

(* ---------------------------------------------------------------------- *)
(* Bounds                                                                  *)
(* ---------------------------------------------------------------------- *)

\* number of chunks io.Copy moves for one response body / one file
BodyLen == 2

\* number of consecutive invocations of the update command that are modelled
MaxRuns == 2

\* number of pieces of a rendered URL template
MaxUrlLen == 3

(* ---------------------------------------------------------------------- *)
(* Values                                                                  *)
(* ---------------------------------------------------------------------- *)

\* a permission value written in octal digits
Oct(a, b, c) == a * 64 + b * 8 + c

\* file content: a sequence of chunks, each tagged with the body it belongs to
Body(tag) == [i \in 1..BodyLen |-> <<tag, i>>]

OldBin == Body("old")
NewBin == Body("new")
ErrBody == Body("errpage")
StaleBin == Body("stale")

NoFile == [ex |-> FALSE, data |-> <<>>, mode |-> 0]
File(d, m) == [ex |-> TRUE, data |-> d, mode |-> m]

\* mode of a file made by os.Create: 0666 filtered by the usual umask 022
CreateMode == Oct(6, 4, 4)

\* runtime.GOOS / runtime.GOARCH of the hosts the program is run on
Hosts == {<<"linux", "amd64">>, <<"darwin", "arm64">>, <<"windows", "amd64">>,
          <<"linux", "arm">>}
GOOS == {h[1] : h \in Hosts}
GOARCH(os) == {h[2] : h \in {g \in Hosts : g[1] = os}}

\* HTTP status codes the repository server answers with
Status == {200, 401, 404, 500}

\* logged in place of a status when sendRequest returned an error
NoResponse == -1

\* launchr.Version().Version of the running binary
CurrentVersion == "v_cur"
\* versions the stable_release file may name
Versions == {"v_cur", "v_new"}
\* the trimmed body of an error page, as read by getStableRelease
ErrPageVersion == "v_errpage"

\* permission bits of the install directory and of the binary before a run
DirModes == {Oct(7, 5, 5), Oct(7, 7, 5), Oct(5, 5, 5)}
FinalModes == {Oct(7, 5, 5), Oct(7, 5, 0)}

\* the external configuration file and the built-in configuration: what the
\* file named by u.externalCfg holds ("" when no path was given)
\* and what SetUpdateConfig was given
CfgPairs == {<<"", "nil">>, <<"", "no_repository_url">>, <<"", "valid">>,
             <<"unparsable", "valid">>, <<"no_repository_url", "valid">>,
             <<"valid", "no_repository_url">>, <<"valid", "valid">>}

NoCreds == [user |-> "", pass |-> ""]
\* --username / --password given on the command line
CliFlags == {NoCreds, [user |-> "cli_user", pass |-> ""],
             [user |-> "cli_user", pass |-> "cli_pass"]}
StoredCreds == [user |-> "kr_user", pass |-> "kr_pass"]

(* ---------------------------------------------------------------------- *)
(* State                                                                   *)
(* ---------------------------------------------------------------------- *)

VARIABLES
    pc,            \* position in createUpdateAction / runUpdate / runCommands
    run,           \* number of the current invocation of the command
    err,           \* error value carried to the caller ("nil" when none)
    upToDate,      \* isUpToDate returned true in this run
    \* environment of the command
    onPath,        \* which of sudo, doas, chmod exec.LookPath finds
    cfgExternal,   \* the file named by u.externalCfg ("" when no path given)
    cfgBuiltin,    \* the configuration given to SetUpdateConfig
    dirOwnerIsMe,  \* os.Getuid() is the owner of u.fDir
    inDirGroup,    \* the group of u.fDir is among the groups of the user
    targetVersion, \* explicit target version of the caller ("" when none)
    cliFlags,      \* --username / --password given on the command line
    \* rendering of a URL template
    rendered,      \* what tmpl.Execute wrote for the template being formatted
    urlOut,        \* the string formatURL returned
    urlErr,        \* the error formatURL returned ("" before the call)
    \* file system
    final,         \* file at u.fPath (the running executable)
    sibling,       \* file at u.fPath + ".tmp"
    tmp,           \* file at filepath.Join(os.TempDir(), u.fName)
    dirMode,       \* permission bits of u.fDir
    \* secret store (keyring)
    storeExists,   \* k.Exists()
    storeEntry,    \* persisted entry for the repository URL, or NoCreds
    \* fields of updateAction
    u_c,           \* u.c username/password
    u_cfg,         \* the configuration u.cfg points to
    u_os,          \* u.os
    u_arch,        \* u.arch
    u_sudoCmd,     \* u.sudoCmd
    u_fTmpPath,    \* u.fTmpPath has been set by findExecPaths
    \* locals of runCommands / downloadFile / installFile
    stableRelease, \* result of getStableRelease
    respBody,      \* body of the download response being copied
    copied,        \* chunks moved so far by the running io.Copy
    sudoRequired,  \* installFile's sudoRequired
    pathPerm,      \* installFile's pathPerm, a string of octal digits
    deferSet,      \* the restoring defer of installFile is registered
    openFiles,     \* files installFile holds open: "src", "dst"
    \* observation of the run
    httpLog,       \* requests issued: <<step, status, credentials>>
    cmdLog,        \* argument vectors of the commands run by setPermissions
    restoreFailed, \* the restoring chmod of the deferred function failed
    prompts,       \* calls of keyring.RequestCredentialsFromTty
    storeReads,    \* calls of k.GetForURL
    lookupErr,     \* error returned by k.GetForURL ("" before the call)
    storeAdds,     \* calls of k.AddItem
    storeSaves,    \* calls of k.Save
    cleanupRan,    \* exitWithError was called
    removeFailed,  \* os.Remove of the temporary file failed in exitWithError
    pre            \* file system and store as they were when the run started

urlVars == <<rendered, urlOut, urlErr>>
envVars == <<onPath, cfgExternal, cfgBuiltin, dirOwnerIsMe, inDirGroup,
             targetVersion, cliFlags, urlVars>>
fsVars == <<final, sibling, tmp, dirMode>>
storeVars == <<storeExists, storeEntry>>
uVars == <<u_c, u_cfg, u_os, u_arch, u_sudoCmd, u_fTmpPath>>
localVars == <<stableRelease, respBody, copied, sudoRequired, pathPerm,
              deferSet>>
obsVars == <<httpLog, cmdLog, restoreFailed, prompts, storeReads, lookupErr,
             storeAdds,
             storeSaves, cleanupRan, removeFailed>>

vars == <<pc, run, err, upToDate, envVars, fsVars, storeVars, uVars, localVars,
          openFiles,
          obsVars, pre>>

Snapshot(f, s, t, d, se) ==
    [final |-> f, sibling |-> s, tmp |-> t, dirMode |-> d, storeEntry |-> se]

(* ---------------------------------------------------------------------- *)
(* Initial state: the command has been invoked, nothing has run yet.       *)
(* The temporary file may be left from an earlier run: neither            *)
(* downloadFile nor installFile removes it.                                *)
(* ---------------------------------------------------------------------- *)

\* no URL template is being formatted
NoTemplate ==
    /\ rendered = <<>>
    /\ urlOut = <<>>
    /\ urlErr = ""

\* the fields and locals of a run, and the observations, before any step
FieldsStart ==
    /\ err = "nil"
    /\ upToDate = FALSE
    /\ u_c = NoCreds
    /\ u_cfg = ""
    /\ u_os = ""
    /\ u_arch = ""
    /\ u_sudoCmd = ""
    /\ u_fTmpPath = FALSE
    /\ stableRelease = ""
    /\ respBody = <<>>
    /\ copied = 0
    /\ sudoRequired = FALSE
    /\ pathPerm = <<>>
    /\ deferSet = FALSE
    /\ openFiles = {}
    /\ httpLog = <<>>
    /\ cmdLog = <<>>
    /\ restoreFailed = FALSE
    /\ prompts = 0
    /\ storeReads = 0
    /\ lookupErr = ""
    /\ storeAdds = 0
    /\ storeSaves = 0
    /\ cleanupRan = FALSE
    /\ removeFailed = FALSE

\* the fields and locals of a run when the command is invoked
RunStart ==
    /\ pc = "createUpdateAction"
    /\ FieldsStart

\* the same values, given to the next state
RunStartNext ==
    /\ pc' = "createUpdateAction"
    /\ err' = "nil"
    /\ upToDate' = FALSE
    /\ u_c' = NoCreds
    /\ u_cfg' = ""
    /\ u_os' = ""
    /\ u_arch' = ""
    /\ u_sudoCmd' = ""
    /\ u_fTmpPath' = FALSE
    /\ stableRelease' = ""
    /\ respBody' = <<>>
    /\ copied' = 0
    /\ sudoRequired' = FALSE
    /\ pathPerm' = <<>>
    /\ deferSet' = FALSE
    /\ openFiles' = {}
    /\ httpLog' = <<>>
    /\ cmdLog' = <<>>
    /\ restoreFailed' = FALSE
    /\ prompts' = 0
    /\ storeReads' = 0
    /\ lookupErr' = ""
    /\ storeAdds' = 0
    /\ storeSaves' = 0
    /\ cleanupRan' = FALSE
    /\ removeFailed' = FALSE

\* the secret store before the first run
StoreStart ==
    /\ storeExists \in BOOLEAN
    /\ storeEntry \in {NoCreds, StoredCreds}
    /\ storeEntry # NoCreds => storeExists

\* every state of the files the update touches, in the usual environment:
\* the binary is configured by the build and the user is not a member of
\* the group of the install directory
Init ==
    /\ RunStart
    /\ NoTemplate
    /\ run = 1
    /\ onPath \in {{"sudo", "chmod"}, {"doas", "chmod"}, {"chmod"}, {"sudo"}}
    /\ cfgExternal = ""
    /\ cfgBuiltin \in {"nil", "valid"}
    /\ dirOwnerIsMe \in BOOLEAN
    /\ inDirGroup = FALSE
    /\ targetVersion = ""
    /\ cliFlags \in CliFlags \ {NoCreds}
    /\ final \in {File(OldBin, m) : m \in FinalModes}
    /\ sibling = NoFile
    /\ tmp \in {NoFile, File(StaleBin, Oct(7, 5, 5))}
    /\ dirMode \in DirModes
    /\ StoreStart
    /\ pre = Snapshot(final, sibling, tmp, dirMode, storeEntry)

\* every environment of the command, over an installed binary of mode 0755,
\* no temporary file and a secret store that holds the credentials
InitEnv ==
    /\ RunStart
    /\ NoTemplate
    /\ run = 1
    /\ onPath \in SUBSET {"sudo", "doas", "chmod"}
    /\ \E pair \in CfgPairs :
        /\ cfgExternal = pair[1]
        /\ cfgBuiltin = pair[2]
    /\ dirOwnerIsMe \in BOOLEAN
    /\ inDirGroup \in BOOLEAN
    /\ targetVersion = ""
    /\ cliFlags = [user |-> "cli_user", pass |-> "cli_pass"]
    /\ final = File(OldBin, Oct(7, 5, 5))
    /\ sibling = NoFile
    /\ tmp = NoFile
    /\ dirMode \in DirModes
    /\ storeExists = TRUE
    /\ storeEntry = StoredCreds
    /\ pre = Snapshot(final, sibling, tmp, dirMode, storeEntry)

(* ---------------------------------------------------------------------- *)
(* Control flow helpers                                                    *)
(* ---------------------------------------------------------------------- *)

\* runCommands as it would be if a step that failed were run again
Fail_retry(e) ==
    /\ err' = e
    /\ UNCHANGED pc

\* a step of runCommands returns the error e: control is back in runUpdate
Fail(e) ==
    /\ err' = e
    /\ pc' = "runUpdate"

Goto(p) ==
    /\ pc' = p
    /\ UNCHANGED err

(* ---------------------------------------------------------------------- *)
(* createUpdateAction (called by the action runtime before runUpdate)      *)
(* ---------------------------------------------------------------------- *)

\* createUpdateAction as it would be if doas were preferred
ChooseSudoCmd_doasFirst(sudoAvailable, doasAvailable) ==
    IF doasAvailable THEN "doas" ELSE "sudo"

\* the elevation tool stored in u.sudoCmd
ChooseSudoCmd(sudoAvailable, doasAvailable) ==
    IF sudoAvailable THEN "sudo" ELSE "doas"

\* createUpdateAction as it would be if the tools were looked up only when
\* the directory of the binary belongs to another user
createUpdateAction_whenNeeded ==
    /\ pc = "createUpdateAction"
    /\ LET sudoAvailable == "sudo" \in onPath
            doasAvailable == "doas" \in onPath
            chmodAvailable == "chmod" \in onPath
            needed == ~dirOwnerIsMe
        IN
        IF needed /\ ~sudoAvailable /\ ~doasAvailable
        THEN /\ err' = "errNoSudoDoas"
             /\ pc' = "createFailed"
             /\ UNCHANGED uVars
        ELSE IF needed /\ ~chmodAvailable
        THEN /\ err' = "errNoChmod"
             /\ pc' = "createFailed"
             /\ UNCHANGED uVars
        ELSE /\ u_sudoCmd' = ChooseSudoCmd(sudoAvailable, doasAvailable)
             /\ u_c' = cliFlags
             /\ u_cfg' = "builtin"
             /\ Goto("getOS")
             /\ UNCHANGED <<u_os, u_arch, u_fTmpPath>>
    /\ UNCHANGED <<envVars, run, upToDate, fsVars, storeVars, localVars, obsVars, pre, openFiles>>

createUpdateAction ==
    /\ pc = "createUpdateAction"
    /\ LET sudoAvailable == "sudo" \in onPath
            doasAvailable == "doas" \in onPath
            chmodAvailable == "chmod" \in onPath
        IN
        IF ~sudoAvailable /\ ~doasAvailable
        THEN /\ err' = "errNoSudoDoas"
             /\ pc' = "createFailed"
             /\ UNCHANGED uVars
        ELSE IF ~chmodAvailable
        THEN /\ err' = "errNoChmod"
             /\ pc' = "createFailed"
             /\ UNCHANGED uVars
        ELSE /\ u_sudoCmd' = ChooseSudoCmd(sudoAvailable, doasAvailable)
             /\ u_c' = cliFlags
             /\ u_cfg' = "builtin"
             /\ Goto("getOS")
             /\ UNCHANGED <<u_os, u_arch, u_fTmpPath>>
    /\ UNCHANGED <<envVars, run, upToDate, fsVars, storeVars, localVars, obsVars, pre, openFiles>>

(* ---------------------------------------------------------------------- *)
(* initVars                                                                *)
(* ---------------------------------------------------------------------- *)

\* getOS as it would be with windows accepted
OSSupported_windows(os) == os = "linux" \/ os = "darwin" \/ os = "windows"

\* getOS: the operating systems that are accepted
OSSupported(os) == os = "linux" \/ os = "darwin"

ArchSupported(arch) == arch = "amd64" \/ arch = "386" \/ arch = "arm64"

\* initVars: u.os, err = getOS()
getOS ==
    /\ pc = "getOS"
    /\ \E os \in GOOS :
        /\ u_os' = os
        /\ IF OSSupported(os) THEN Goto("getArch") ELSE Fail("errUnsupportedOS")
    /\ UNCHANGED <<envVars, run, upToDate, fsVars, storeVars, u_c, u_cfg,
                   u_arch, u_sudoCmd, u_fTmpPath, localVars, obsVars, pre, openFiles>>

\* initVars: u.arch, err = getArch()
getArch ==
    /\ pc = "getArch"
    /\ \E arch \in GOARCH(u_os) :
        /\ u_arch' = arch
        /\ IF ArchSupported(arch) THEN Goto("loadConfig")
                                  ELSE Fail("errUnsupportedArch")
    /\ UNCHANGED <<envVars, run, upToDate, fsVars, storeVars, u_c, u_cfg,
                   u_os, u_sudoCmd, u_fTmpPath, localVars, obsVars, pre, openFiles>>

\* initVars as it would be if the external file were never read
UseExternal_never(externalCfg) == FALSE

\* initVars: externalCfg != ""
UseExternal(externalCfg) == externalCfg # ""

\* parseConfigFromPath returns an error: the file is not readable YAML, or
\* validateConfig rejects what was read
ParseFails(externalCfg) ==
    externalCfg = "unparsable" \/ externalCfg = "no_repository_url"

\* initVars: external configuration, nil check, validateConfig
loadConfig ==
    /\ pc = "loadConfig"
    /\ IF UseExternal(cfgExternal)
       THEN IF ParseFails(cfgExternal)
            THEN /\ Fail("errParseExternalCfg")
                 /\ UNCHANGED u_cfg
            ELSE /\ u_cfg' = "external"
                 /\ Goto("getCredentials")
       ELSE /\ UNCHANGED u_cfg
            /\ IF cfgBuiltin = "nil" THEN Fail("errCfgNotSet")
               ELSE IF cfgBuiltin = "no_repository_url"
                    THEN Fail("errNotEnoughCfg")
               ELSE Goto("getCredentials")
    /\ UNCHANGED <<envVars, run, upToDate, fsVars, storeVars, u_c, u_os,
                   u_arch, u_sudoCmd, u_fTmpPath, localVars, obsVars, pre, openFiles>>

\* RequestCredentialsFromTty as it would be if it asked for both fields
FromTty_both(ci) == [user |-> "tty_user", pass |-> "tty_pass"]

\* what keyring.RequestCredentialsFromTty leaves in the item: the fields
\* that were empty are read from the terminal
FromTty(ci) ==
    [user |-> IF ci.user = "" THEN "tty_user" ELSE ci.user,
     pass |-> IF ci.pass = "" THEN "tty_pass" ELSE ci.pass]

\* getCredentials as it would be if the error of the store were returned
\* as it is
LookupError_raw(e) == e

\* getCredentials: the error returned for a failed k.GetForURL that is not
\* ErrNotFound
LookupError(e) ==
    IF e = "ErrEmptyPass" THEN "ErrEmptyPass" ELSE "errMalformedKeyring"

\* getCredentials as it would be if credentials given on the command line
\* took precedence over the stored ones
StoredItem_flagsFirst(entry, c) == IF c.user # "" THEN c ELSE entry

\* the item k.GetForURL returns for a URL that has an entry; it replaces u.c
StoredItem(entry, c) == entry

getCredentials ==
    /\ pc = "getCredentials"
    /\ storeReads' = storeReads + 1
    /\ \E lookup \in {"ok", "ErrEmptyPass", "ErrDecrypt", "ErrCorrupt"},
          ttyOk \in BOOLEAN, addOk \in BOOLEAN, saveOk \in BOOLEAN :
        IF lookup # "ok"
        THEN /\ lookupErr' = lookup
             /\ Fail(LookupError(lookup))
             /\ UNCHANGED <<u_c, storeEntry, prompts, storeAdds, storeSaves>>
        ELSE IF storeEntry # NoCreds
        THEN /\ lookupErr' = "nil"
             /\ u_c' = StoredItem(storeEntry, u_c)
             /\ Goto("findExecPaths")
             /\ UNCHANGED <<storeEntry, prompts, storeAdds, storeSaves>>
        ELSE LET needTty == u_c.user = "" \/ u_c.pass = ""
                 ci == IF needTty THEN FromTty(u_c) ELSE u_c
             IN  /\ lookupErr' = "ErrNotFound"
                 /\ prompts' = IF needTty THEN prompts + 1 ELSE prompts
                 /\ IF needTty /\ ~ttyOk
                    THEN /\ Fail("errTty")
                         /\ UNCHANGED <<u_c, storeEntry, storeAdds, storeSaves>>
                    ELSE /\ storeAdds' = storeAdds + 1
                         /\ IF ~addOk
                            THEN /\ Fail("errAddItem")
                                 /\ UNCHANGED <<u_c, storeEntry, storeSaves>>
                            ELSE /\ u_c' = ci
                                 /\ IF storeExists
                                    THEN /\ storeSaves' = storeSaves + 1
                                         /\ IF saveOk
                                            THEN /\ storeEntry' = ci
                                                 /\ Goto("findExecPaths")
                                            ELSE /\ Fail("errSave")
                                                 /\ UNCHANGED storeEntry
                                    ELSE /\ Goto("findExecPaths")
                                         /\ UNCHANGED <<storeEntry, storeSaves>>
    /\ UNCHANGED <<envVars, run, upToDate, fsVars, storeExists, u_cfg, u_os,
                   u_arch, u_sudoCmd, u_fTmpPath, localVars, httpLog, cmdLog, restoreFailed,
                   cleanupRan, removeFailed, pre, openFiles>>

\* initVars: findExecPaths sets u.fDir, u.fPath, u.fName, u.fTmpPath
findExecPaths ==
    /\ pc = "findExecPaths"
    /\ \E ok \in BOOLEAN :
        IF ok THEN /\ u_fTmpPath' = TRUE
                   /\ Goto("validateCredentials")
              ELSE /\ Fail("errExecPath")
                   /\ UNCHANGED u_fTmpPath
    /\ UNCHANGED <<envVars, run, upToDate, fsVars, storeVars, u_c, u_cfg,
                   u_os, u_arch, u_sudoCmd, localVars, obsVars, pre, openFiles>>

(* ---------------------------------------------------------------------- *)
(* HTTP steps of runCommands                                               *)
(* ---------------------------------------------------------------------- *)

\* validateCredentials: the error returned for a response status
ValidateError(status) ==
    CASE status = 0 -> "errInvalidCreds"
      [] status = 200 -> "nil"
      [] status = 401 -> "errInvalidCreds"
      [] status = 404 -> "errInvalidCreds"
      [] OTHER -> "nil"

fsStoreU == <<envVars, run, upToDate, fsVars, storeVars, uVars>>
obsNoHttp == <<cmdLog, restoreFailed, prompts, storeReads, lookupErr, storeAdds,
               storeSaves, cleanupRan, removeFailed>>

\* sendRequest as it would be without req.SetBasicAuth
SendRequest_noAuth(step, status) == <<step, status, NoCreds>>

\* sendRequest: the request of a step, its outcome, and the user name and
\* password req.SetBasicAuth puts on it
SendRequest(step, status) == <<step, status, u_c>>

validateCredentials ==
    /\ pc = "validateCredentials"
    /\ \/ /\ Fail("errNet")          \* sendRequest failed, no response
          /\ httpLog' = Append(httpLog, SendRequest("validateCredentials", NoResponse))
       \/ \E status \in Status :
            /\ httpLog' = Append(httpLog, SendRequest("validateCredentials", status))
            /\ IF ValidateError(status) # "nil"
               THEN Fail(ValidateError(status))
               ELSE Goto("getStableRelease")
    /\ UNCHANGED <<fsStoreU, localVars, obsNoHttp, pre, openFiles>>

getStableRelease ==
    /\ pc = "getStableRelease"
    /\ \/ /\ Fail("errNet")          \* sendRequest failed, no response
          /\ httpLog' = Append(httpLog, SendRequest("getStableRelease", NoResponse))
          /\ UNCHANGED stableRelease
       \/ \E status \in Status :     \* the trimmed body is the release
            /\ httpLog' = Append(httpLog, SendRequest("getStableRelease", status))
            /\ \E v \in (IF status = 200 THEN Versions ELSE {ErrPageVersion}) :
                    stableRelease' = v
            /\ Goto("isUpToDate")
       \/ \E status \in Status :     \* io.ReadAll failed
            /\ httpLog' = Append(httpLog, SendRequest("getStableRelease", status))
            /\ Fail("errReadBody")
            /\ UNCHANGED stableRelease
    /\ UNCHANGED <<fsStoreU, respBody, copied, sudoRequired, pathPerm,
                   deferSet, obsNoHttp, pre, openFiles>>

\* isUpToDate as it would be if it never reported an up-to-date binary
IsUpToDate_never(release) == FALSE

\* isUpToDate(stableRelease)
IsUpToDate(release) == release = CurrentVersion

\* runCommands: the up-to-date short-circuit
isUpToDate ==
    /\ pc = "isUpToDate"
    /\ IF IsUpToDate(stableRelease)
       THEN /\ upToDate' = TRUE
            /\ Goto("runUpdate")
       ELSE /\ UNCHANGED upToDate
            /\ Goto("dl_request")
    /\ UNCHANGED <<envVars, run, fsVars, storeVars, uVars, localVars, obsVars, pre, openFiles>>

(* ---------------------------------------------------------------------- *)
(* downloadFile                                                            *)
(* ---------------------------------------------------------------------- *)

\* os.Create: an existing file is truncated and keeps its mode
Created(f) == File(<<>>, IF f.ex THEN f.mode ELSE CreateMode)

\* one octal digit with its execute bit set
SetX(d) == IF d % 2 = 0 THEN d + 1 ELSE d

\* fileMode |= 0111
OrExec(m) == Oct(SetX((m \div 64) % 8), SetX((m \div 8) % 8), SetX(m % 8))

dl_request ==
    /\ pc = "dl_request"
    /\ \/ /\ Fail("errNet")
          /\ httpLog' = Append(httpLog, SendRequest("downloadFile", NoResponse))
          /\ UNCHANGED respBody
       \/ \E status \in Status :
            /\ httpLog' = Append(httpLog, SendRequest("downloadFile", status))
            /\ respBody' = IF status = 200 THEN NewBin ELSE ErrBody
            /\ Goto("dl_create")
    /\ UNCHANGED <<fsStoreU, stableRelease, copied, sudoRequired, pathPerm, deferSet, obsNoHttp, pre, openFiles>>

\* out, err := os.Create(u.fTmpPath)
dl_create ==
    /\ pc = "dl_create"
    /\ \E ok \in BOOLEAN :
        IF ok THEN /\ tmp' = Created(tmp)
                   /\ copied' = 0
                   /\ Goto("dl_copy")
              ELSE /\ Fail("errCreateTmp")
                   /\ UNCHANGED <<tmp, copied>>
    /\ UNCHANGED <<envVars, run, upToDate, final, sibling, dirMode, storeVars, uVars, stableRelease, respBody,
                   sudoRequired, pathPerm, deferSet, obsVars, pre, openFiles>>

\* io.Copy(out, resp.Body), one chunk at a time
dl_copy ==
    /\ pc = "dl_copy"
    /\ \/ /\ tmp' = [tmp EXCEPT !.data = Append(@, respBody[copied + 1])]
          /\ copied' = copied + 1
          /\ Goto(IF copied + 1 < Len(respBody) THEN "dl_copy" ELSE "dl_chmod")
       \/ /\ Fail("errCopy")
          /\ UNCHANGED <<tmp, copied>>
    /\ UNCHANGED <<envVars, run, upToDate, final, sibling, dirMode, storeVars, uVars, stableRelease, respBody,
                   sudoRequired, pathPerm, deferSet, obsVars, pre, openFiles>>

\* os.Stat(u.fTmpPath); os.Chmod(u.fTmpPath, fileMode | 0111)
dl_chmod ==
    /\ pc = "dl_chmod"
    /\ \E statOk \in BOOLEAN, chmodOk \in BOOLEAN :
         IF ~statOk THEN Fail("errStatTmp") /\ UNCHANGED tmp
         ELSE IF ~chmodOk THEN Fail("errChmodTmp") /\ UNCHANGED tmp
         ELSE /\ tmp' = [tmp EXCEPT !.mode = OrExec(@)]
              /\ Goto("in_probe")
    /\ UNCHANGED <<envVars, run, upToDate, final, sibling, dirMode, storeVars, uVars, localVars, obsVars, pre, openFiles>>

(* ---------------------------------------------------------------------- *)
(* installFile                                                             *)
(* ---------------------------------------------------------------------- *)

\* info.Mode().Perm()
Perm(m) == m % 512

\* the format as it would be with the verb %04d: the decimal digits
FormatOctal4_decimal(p) ==
    <<(p \div 1000) % 10, (p \div 100) % 10, (p \div 10) % 10, p % 10>>

\* fmt.Sprintf("%04o", perm): the octal digits, padded to four
FormatOctal4(p) ==
    <<(p \div 512) % 8, (p \div 64) % 8, (p \div 8) % 8, p % 8>>

\* the mode chmod reads from a string of octal digits
RECURSIVE ParseOctal(_)
ParseOctal(digits) ==
    IF digits = <<>> THEN 0
    ELSE ParseOctal(SubSeq(digits, 1, Len(digits) - 1)) * 8
         + digits[Len(digits)]

Mode777 == <<7, 7, 7>>
\* installFile as it would be if the binary were given the mode of a file
\* made by os.Create
Mode755_created == <<6, 4, 4>>

Mode755 == <<7, 5, 5>>

\* hasWritePermissions as it would be without the group check
HasWritePermissions_ownerOnly(mode, ownerIsMe, inGroup) ==
    ownerIsMe /\ (Perm(mode) \div 128) % 2 = 1

\* hasWritePermissions: nil (TRUE) or errNoWritePermission (FALSE)
HasWritePermissions(mode, ownerIsMe, inGroup) ==
    LET hasOwnerWrite == (Perm(mode) \div 128) % 2 = 1
        hasGroupWrite == (Perm(mode) \div 16) % 2 = 1 /\ inGroup
    IN  (ownerIsMe /\ hasOwnerWrite) \/ hasGroupWrite

\* setPermissions as it would be if it always elevated with sudo
ChmodArgv_sudoOnly(tool, permissions, target, sudo) ==
    IF sudo THEN <<"sudo", "chmod", permissions, target>>
            ELSE <<"chmod", permissions, target>>

\* setPermissions: the argument vector of the command that is run
ChmodArgv(tool, permissions, target, sudo) ==
    IF sudo
    THEN IF tool = "sudo" THEN <<"sudo", "chmod", permissions, target>>
                          ELSE <<"doas", "chmod", permissions, target>>
    ELSE <<"chmod", permissions, target>>

\* a step of installFile succeeded: the next statement runs
Step(p) ==
    /\ Goto(p)
    /\ UNCHANGED openFiles

\* installFile as it would be if the directory were restored only at the
\* end of a successful install
InstallReturn_restoreOnSuccess(e) ==
    /\ err' = e
    /\ pc' = IF deferSet /\ e = "nil" THEN "in_defer" ELSE "runUpdate"
    /\ openFiles' = IF deferSet /\ e = "nil" THEN openFiles \ {"dst"} ELSE {}

\* installFile returns e and its deferred calls run, the last registered
\* first: dst.Close(), the function that restores the directory (it is a
\* step of its own), src.Close()
InstallReturn(e) ==
    /\ err' = e
    /\ pc' = IF deferSet THEN "in_defer" ELSE "runUpdate"
    /\ openFiles' = IF deferSet THEN openFiles \ {"dst"} ELSE {}

\* err := hasWritePermissions(dirPath)
in_probe ==
    /\ pc = "in_probe"
    /\ \E probeOk \in BOOLEAN :
        IF ~probeOk
        THEN /\ InstallReturn("errProbe")
             /\ UNCHANGED sudoRequired
        ELSE /\ sudoRequired' =
                    ~HasWritePermissions(dirMode, dirOwnerIsMe, inDirGroup)
             /\ Step("in_open")
    /\ UNCHANGED <<fsStoreU, stableRelease, respBody, copied, pathPerm,
                   deferSet, obsVars, pre>>

\* src, err := os.Open(u.fTmpPath)
in_open ==
    /\ pc = "in_open"
    /\ \E ok \in BOOLEAN :
        IF ok /\ tmp.ex
        THEN /\ Goto(IF sudoRequired THEN "in_stat" ELSE "in_create")
             /\ openFiles' = openFiles \cup {"src"}
        ELSE InstallReturn("errOpen")
    /\ UNCHANGED <<fsStoreU, localVars, obsVars, pre>>

\* info, err := os.Stat(u.fDir); pathPerm := fmt.Sprintf("%04o", ...)
in_stat ==
    /\ pc = "in_stat"
    /\ \E ok \in BOOLEAN :
        IF ok THEN /\ pathPerm' = FormatOctal4(Perm(dirMode))
                   /\ Step("in_chmod777")
              ELSE /\ InstallReturn("errStatDir")
                   /\ UNCHANGED pathPerm
    /\ UNCHANGED <<fsStoreU, stableRelease, respBody, copied, sudoRequired, deferSet, obsVars, pre>>

\* u.setPermissions("777", u.fDir, sudoRequired); defer func() {...}()
in_chmod777 ==
    /\ pc = "in_chmod777"
    /\ cmdLog' = Append(cmdLog, ChmodArgv(u_sudoCmd, Mode777, "fDir", sudoRequired))
    /\ \E ok \in BOOLEAN :
        IF ok THEN /\ dirMode' = ParseOctal(Mode777)
                   /\ deferSet' = TRUE
                   /\ Step("in_create")
              ELSE /\ InstallReturn("errChmod777")
                   /\ UNCHANGED <<dirMode, deferSet>>
    /\ UNCHANGED <<envVars, run, upToDate, final, sibling, tmp, storeVars, uVars, stableRelease, respBody,
                   copied, sudoRequired, pathPerm, httpLog, restoreFailed,
                   prompts, storeReads, lookupErr, storeAdds, storeSaves, cleanupRan,
                   removeFailed, pre>>

\* installFile as it would be if the destination were created at u.fPath
in_create_direct ==
    /\ pc = "in_create"
    /\ \E ok \in BOOLEAN :
        IF ok THEN /\ final' = Created(final)
                   /\ copied' = 0
                   /\ Goto("in_copy")
                   /\ openFiles' = openFiles \cup {"dst"}
              ELSE /\ InstallReturn("errCreate")
                   /\ UNCHANGED <<final, copied>>
    /\ sibling' = Created(sibling)
    /\ UNCHANGED <<envVars, run, upToDate, tmp, dirMode, storeVars, uVars,
                   stableRelease, respBody, sudoRequired, pathPerm, deferSet,
                   obsVars, pre>>

\* dst, err := os.Create(filepath.Clean(fTmpName))
in_create ==
    /\ pc = "in_create"
    /\ \E ok \in BOOLEAN :
        IF ok THEN /\ sibling' = Created(sibling)
                   /\ copied' = 0
                   /\ Goto("in_copy")
                   /\ openFiles' = openFiles \cup {"dst"}
              ELSE /\ InstallReturn("errCreate")
                   /\ UNCHANGED <<sibling, copied>>
    /\ UNCHANGED <<envVars, run, upToDate, final, tmp, dirMode, storeVars, uVars, stableRelease, respBody,
                   sudoRequired, pathPerm, deferSet, obsVars, pre>>

\* io.Copy(dst, src), one chunk at a time
in_copy ==
    /\ pc = "in_copy"
    /\ \/ /\ sibling' = [sibling EXCEPT !.data = Append(@, tmp.data[copied + 1])]
          /\ copied' = copied + 1
          /\ Step(IF copied + 1 < Len(tmp.data) THEN "in_copy" ELSE "in_rename")
       \/ /\ InstallReturn("errCopyInstall")
          /\ UNCHANGED <<sibling, copied>>
    /\ UNCHANGED <<envVars, run, upToDate, final, tmp, dirMode, storeVars, uVars, stableRelease, respBody,
                   sudoRequired, pathPerm, deferSet, obsVars, pre>>

\* os.Rename as it would be if a failed rename could leave the sibling's
\* content at u.fPath
in_rename_notAtomic ==
    /\ pc = "in_rename"
    /\ \E ok \in BOOLEAN :
        IF ok THEN /\ final' = sibling
                   /\ sibling' = NoFile
                   /\ Step("in_chmod755")
              ELSE /\ InstallReturn("errRename")
                   /\ final' = sibling
                   /\ UNCHANGED sibling
    /\ UNCHANGED <<envVars, run, upToDate, tmp, dirMode, storeVars, uVars, localVars, obsVars, pre>>

\* os.Rename(fTmpName, u.fPath)
in_rename ==
    /\ pc = "in_rename"
    /\ \E ok \in BOOLEAN :
        IF ok THEN /\ final' = sibling
                   /\ sibling' = NoFile
                   /\ Step("in_chmod755")
              ELSE /\ InstallReturn("errRename")
                   /\ UNCHANGED <<final, sibling>>
    /\ UNCHANGED <<envVars, run, upToDate, tmp, dirMode, storeVars, uVars, localVars, obsVars, pre>>

\* u.setPermissions("755", u.fPath, sudoRequired)
in_chmod755 ==
    /\ pc = "in_chmod755"
    /\ cmdLog' = Append(cmdLog, ChmodArgv(u_sudoCmd, Mode755, "fPath", sudoRequired))
    /\ \E ok \in BOOLEAN :
        IF ok THEN /\ final' = [final EXCEPT !.mode = ParseOctal(Mode755)]
                   /\ InstallReturn("nil")
              ELSE /\ InstallReturn("errChmod755")
                   /\ UNCHANGED final
    /\ UNCHANGED <<envVars, run, upToDate, sibling, tmp, dirMode, storeVars, uVars, localVars, httpLog,
                   restoreFailed, prompts, storeReads, lookupErr, storeAdds, storeSaves,
                   cleanupRan, removeFailed, pre>>

\* the deferred function as it would be if a failed restoration were
\* returned by installFile
in_defer_returnsError ==
    /\ pc = "in_defer"
    /\ cmdLog' = Append(cmdLog, ChmodArgv(u_sudoCmd, pathPerm, "fDir", sudoRequired))
    /\ \E ok \in BOOLEAN :
        IF ok THEN /\ dirMode' = ParseOctal(pathPerm)
                   /\ UNCHANGED <<restoreFailed, err>>
              ELSE /\ restoreFailed' = TRUE
                   /\ err' = IF err = "nil" THEN "errRestore" ELSE err
                   /\ UNCHANGED dirMode
    /\ pc' = "runUpdate"
    /\ openFiles' = {}
    /\ UNCHANGED <<envVars, run, upToDate, final, sibling, tmp,
                   storeVars, uVars, localVars,
                   httpLog, prompts, storeReads, lookupErr, storeAdds, storeSaves,
                   cleanupRan, removeFailed, pre>>

\* the deferred function: u.setPermissions(pathPerm, u.fDir, sudoRequired);
\* its error is logged and dropped
in_defer ==
    /\ pc = "in_defer"
    /\ cmdLog' = Append(cmdLog, ChmodArgv(u_sudoCmd, pathPerm, "fDir", sudoRequired))
    /\ \E ok \in BOOLEAN :
        IF ok THEN /\ dirMode' = ParseOctal(pathPerm)
                   /\ UNCHANGED restoreFailed
              ELSE /\ restoreFailed' = TRUE
                   /\ UNCHANGED dirMode
    /\ pc' = "runUpdate"
    /\ openFiles' = {}
    /\ UNCHANGED <<envVars, run, err, upToDate, final, sibling, tmp,
                   storeVars, uVars, localVars,
                   httpLog, prompts, storeReads, lookupErr, storeAdds, storeSaves,
                   cleanupRan, removeFailed, pre>>

(* ---------------------------------------------------------------------- *)
(* runUpdate: the result of runCommands, exitWithError                     *)
(* ---------------------------------------------------------------------- *)

\* exitWithError as it would be without the os.Remove
exitWithError_noRemove ==
    /\ pc = "runUpdate"
    /\ err # "nil"
    /\ cleanupRan' = TRUE
    /\ pc' = "failed"
    /\ UNCHANGED <<envVars, run, err, upToDate, fsVars, storeVars, uVars, localVars,
                   httpLog, cmdLog, restoreFailed, prompts, storeReads,
                   lookupErr, storeAdds, storeSaves, removeFailed, pre, openFiles>>

\* runUpdate as it would be if a failed removal of the temporary file were
\* returned in place of the error of the step
exitWithError_removeError ==
    /\ pc = "runUpdate"
    /\ err # "nil"
    /\ cleanupRan' = TRUE
    /\ IF u_fTmpPath /\ tmp.ex
       THEN \E ok \in BOOLEAN :
              IF ok THEN tmp' = NoFile /\ UNCHANGED <<removeFailed, err>>
                    ELSE /\ removeFailed' = TRUE
                         /\ err' = "errRemoveTmp"
                         /\ UNCHANGED tmp
       ELSE UNCHANGED <<tmp, removeFailed, err>>
    /\ pc' = "failed"
    /\ UNCHANGED <<envVars, run, upToDate, final, sibling, dirMode,
                   storeVars, uVars, localVars,
                   httpLog, cmdLog, restoreFailed, prompts, storeReads,
                   lookupErr, storeAdds, storeSaves, pre, openFiles>>

\* runUpdate with err != nil: u.exitWithError(); return err
exitWithError ==
    /\ pc = "runUpdate"
    /\ err # "nil"
    /\ cleanupRan' = TRUE
    /\ IF u_fTmpPath /\ tmp.ex          \* os.Stat(u.fTmpPath) succeeded
       THEN \E ok \in BOOLEAN :
              IF ok THEN tmp' = NoFile /\ UNCHANGED removeFailed
                    ELSE removeFailed' = TRUE /\ UNCHANGED tmp
       ELSE UNCHANGED <<tmp, removeFailed>>
    /\ pc' = "failed"
    /\ UNCHANGED <<envVars, run, err, upToDate, final, sibling, dirMode,
                   storeVars, uVars, localVars,
                   httpLog, cmdLog, restoreFailed, prompts, storeReads,
                   lookupErr, storeAdds, storeSaves, pre, openFiles>>

\* runUpdate with err == nil: return nil
returnNil ==
    /\ pc = "runUpdate"
    /\ err = "nil"
    /\ pc' = "done"
    /\ UNCHANGED <<envVars, run, err, upToDate, fsVars, storeVars, uVars,
                   localVars, obsVars, pre, openFiles>>

(* ---------------------------------------------------------------------- *)
(* Environment                                                             *)
(* ---------------------------------------------------------------------- *)

DownloadPcs == {"dl_request", "dl_create", "dl_copy", "dl_chmod"}
InstallPcs == {"in_probe", "in_open", "in_stat", "in_chmod777", "in_create",
               "in_copy", "in_rename", "in_chmod755", "in_defer"}

\* the process is killed during installFile: nothing more
\* runs, deferred functions and exitWithError included
crash ==
    /\ pc \in InstallPcs
    /\ pc' = "crashed"
    /\ openFiles' = {}
    /\ UNCHANGED <<envVars, run, err, upToDate, fsVars, storeVars, uVars, localVars,
                   obsVars, pre>>

\* the command is invoked again after a run that found the binary up to
\* date; the file system and the secret store are what that run left
rerun ==
    /\ pc = "done"
    /\ upToDate
    /\ run < MaxRuns
    /\ run' = run + 1
    /\ RunStartNext
    /\ pre' = Snapshot(final, sibling, tmp, dirMode, storeEntry)
    /\ UNCHANGED <<envVars, fsVars, storeVars>>

Next ==
    \/ createUpdateAction
    \/ getOS
    \/ getArch
    \/ loadConfig
    \/ getCredentials
    \/ findExecPaths
    \/ validateCredentials
    \/ getStableRelease
    \/ isUpToDate
    \/ dl_request
    \/ dl_create
    \/ dl_copy
    \/ dl_chmod
    \/ in_probe
    \/ in_open
    \/ in_stat
    \/ in_chmod777
    \/ in_create
    \/ in_copy
    \/ in_rename
    \/ in_chmod755
    \/ in_defer
    \/ exitWithError
    \/ returnNil
    \/ crash
    \/ rerun

Spec == Init /\ [][Next]_vars

SpecEnv == InitEnv /\ [][Next]_vars

\* every state of the secret store, over one state of the files
InitStore ==
    /\ RunStart
    /\ NoTemplate
    /\ run = 1
    /\ onPath = {"sudo", "chmod"}
    /\ cfgExternal = ""
    /\ cfgBuiltin = "valid"
    /\ dirOwnerIsMe \in BOOLEAN
    /\ inDirGroup = FALSE
    /\ targetVersion = ""
    /\ cliFlags \in CliFlags
    /\ final = File(OldBin, Oct(7, 5, 5))
    /\ sibling = NoFile
    /\ tmp = NoFile
    /\ dirMode = Oct(7, 5, 5)
    /\ StoreStart
    /\ pre = Snapshot(final, sibling, tmp, dirMode, storeEntry)

SpecStore == InitStore /\ [][Next]_vars

(* ---------------------------------------------------------------------- *)
(* Version resolution with an explicit target version. runCommands and     *)
(* getStableRelease as given take no version from the caller; the branch   *)
(* below is resolveVersion as the specification describes it: an explicit  *)
(* version is returned unchanged, without a request.                       *)
(* ---------------------------------------------------------------------- *)

\* versions a caller may ask for
TargetVersions == {"v_pin", CurrentVersion}

\* the usual environment, with or without an explicit target version
InitTarget ==
    /\ RunStart
    /\ NoTemplate
    /\ run = 1
    /\ onPath = {"sudo", "chmod"}
    /\ cfgExternal = ""
    /\ cfgBuiltin = "valid"
    /\ dirOwnerIsMe \in BOOLEAN
    /\ inDirGroup = FALSE
    /\ targetVersion \in {""} \cup TargetVersions
    /\ cliFlags = [user |-> "cli_user", pass |-> ""]
    /\ final = File(OldBin, Oct(7, 5, 5))
    /\ sibling = NoFile
    /\ tmp = NoFile
    /\ dirMode \in DirModes
    /\ storeExists = TRUE
    /\ storeEntry = StoredCreds
    /\ pre = Snapshot(final, sibling, tmp, dirMode, storeEntry)

\* resolveVersion as it would be if the stable-version endpoint were
\* requested before the explicit version is returned
resolveVersion_request ==
    /\ pc = "getStableRelease"
    /\ targetVersion # ""
    /\ httpLog' = Append(httpLog, SendRequest("getStableRelease", 200))
    /\ stableRelease' = targetVersion
    /\ Goto("isUpToDate")
    /\ UNCHANGED <<fsStoreU, respBody, copied, sudoRequired, pathPerm,
                   deferSet, obsNoHttp, pre, openFiles>>

\* resolveVersion for an explicit target version
resolveVersion ==
    /\ pc = "getStableRelease"
    /\ targetVersion # ""
    /\ stableRelease' = targetVersion
    /\ Goto("isUpToDate")
    /\ UNCHANGED <<fsStoreU, respBody, copied, sudoRequired, pathPerm,
                   deferSet, obsVars, pre, openFiles>>

\* the pipeline in which the version is resolved by resolveVersion
NextTarget ==
    \/ resolveVersion
    \/ /\ ~(pc = "getStableRelease" /\ targetVersion # "")
       /\ Next

SpecTarget == InitTarget /\ [][NextTarget]_vars

(* ---------------------------------------------------------------------- *)
(* formatURL and validateURL. A rendered template is a sequence of pieces  *)
(* of a URL; the pieces are chosen so that every check of validateURL can   *)
(* pass and can fail.                                                       *)
(* ---------------------------------------------------------------------- *)

\* characters validateURL looks for with strings.ContainsAny; strings.TrimSpace
\* removes them from both ends
ControlTokens == {"\n"}

\* "%zz" is an escape url.Parse rejects
UrlTokens == {"http:", "https:", "ftp:", "//h", "/p", "%zz"} \cup ControlTokens

\* the schemes validateURL accepts
HttpSchemes == {"http:", "https:"}

\* template.Parse or tmpl.Execute returned an error: nothing was rendered
TemplateFails == <<"template error">>

RenderedStrings ==
    UNION {[1..n -> UrlTokens] : n \in 0..MaxUrlLen} \cup {TemplateFails}

\* strings.TrimSpace
RECURSIVE TrimLeft(_)
TrimLeft(s) ==
    IF s # <<>> /\ Head(s) \in ControlTokens THEN TrimLeft(Tail(s)) ELSE s

RECURSIVE TrimRight(_)
TrimRight(s) ==
    IF s # <<>> /\ s[Len(s)] \in ControlTokens
    THEN TrimRight(SubSeq(s, 1, Len(s) - 1))
    ELSE s

TrimSpace(s) == TrimRight(TrimLeft(s))

\* url.Parse: the error, the scheme and the host of the parsed URL
ParseURL(s) ==
    LET scheme == IF s # <<>> /\ s[1] \in {"http:", "https:", "ftp:"}
                  THEN s[1] ELSE ""
        rest == IF scheme = "" THEN s ELSE Tail(s)
    IN [err |-> \E i \in DOMAIN s : s[i] = "%zz",
        scheme |-> scheme,
        host |-> IF rest # <<>> /\ rest[1] = "//h" THEN "h" ELSE ""]

\* validateURL as it would be if it accepted every scheme
ValidateURL_anyScheme(rawURL) ==
    IF \E i \in DOMAIN rawURL : rawURL[i] \in ControlTokens
    THEN "errControl"
    ELSE IF ParseURL(rawURL).err THEN "errFormat"
    ELSE IF ParseURL(rawURL).scheme = "" THEN "errNoScheme"
    ELSE IF ParseURL(rawURL).host = "" THEN "errNoHost"
    ELSE "nil"

\* validateURL(rawURL)
ValidateURL(rawURL) ==
    IF \E i \in DOMAIN rawURL : rawURL[i] \in ControlTokens
    THEN "errControl"
    ELSE IF ParseURL(rawURL).err THEN "errFormat"
    ELSE IF ParseURL(rawURL).scheme = "" THEN "errNoScheme"
    ELSE IF ParseURL(rawURL).scheme \notin HttpSchemes THEN "errScheme"
    ELSE IF ParseURL(rawURL).host = "" THEN "errNoHost"
    ELSE "nil"

\* formatURL(templateStr, vars): the string and the error it returns
FormatURL(r) ==
    IF r = TemplateFails
    THEN [url |-> <<>>, err |-> "errTemplate"]
    ELSE IF ValidateURL(TrimSpace(r)) # "nil"
    THEN [url |-> <<>>, err |-> "errInvalidURL"]
    ELSE [url |-> TrimSpace(r), err |-> "nil"]

formatURL ==
    /\ pc = "formatURL"
    /\ urlOut' = FormatURL(rendered).url
    /\ urlErr' = FormatURL(rendered).err
    /\ pc' = "sendRendered"
    /\ UNCHANGED <<run, err, upToDate, onPath, cfgExternal, cfgBuiltin,
                   dirOwnerIsMe, inDirGroup, targetVersion, cliFlags, rendered,
                   fsVars,
                   storeVars, uVars, localVars, openFiles, obsVars, pre>>

\* the caller of formatURL: an error is returned to its caller, a URL is
\* handed to sendRequest
sendRendered ==
    /\ pc = "sendRendered"
    /\ IF urlErr # "nil"
       THEN /\ err' = urlErr
            /\ UNCHANGED httpLog
       ELSE /\ \E status \in Status \cup {NoResponse} :
                    httpLog' = Append(httpLog, SendRequest("rendered", status))
            /\ UNCHANGED err
    /\ pc' = "renderedDone"
    /\ UNCHANGED <<run, upToDate, envVars, fsVars, storeVars, uVars, localVars,
                   openFiles, cmdLog, restoreFailed, prompts, storeReads,
                   lookupErr, storeAdds, storeSaves, cleanupRan, removeFailed,
                   pre>>

\* every rendering of a template, over one state of the files and the store
InitURL ==
    /\ pc = "formatURL"
    /\ FieldsStart
    /\ run = 1
    /\ onPath = {"sudo", "chmod"}
    /\ cfgExternal = ""
    /\ cfgBuiltin = "valid"
    /\ dirOwnerIsMe = TRUE
    /\ inDirGroup = FALSE
    /\ targetVersion = ""
    /\ cliFlags = NoCreds
    /\ rendered \in RenderedStrings
    /\ urlOut = <<>>
    /\ urlErr = ""
    /\ final = File(OldBin, Oct(7, 5, 5))
    /\ sibling = NoFile
    /\ tmp = NoFile
    /\ dirMode = Oct(7, 5, 5)
    /\ storeExists = TRUE
    /\ storeEntry = StoredCreds
    /\ pre = Snapshot(final, sibling, tmp, dirMode, storeEntry)

NextURL == formatURL \/ sendRendered

SpecURL == InitURL /\ [][NextURL]_vars

TypeOK ==
    /\ pc \in {"createUpdateAction", "getOS", "getArch", "loadConfig",
               "getCredentials", "findExecPaths", "validateCredentials",
               "getStableRelease", "isUpToDate", "runUpdate"}
              \cup DownloadPcs \cup InstallPcs
              \cup {"createFailed", "failed", "done", "crashed"}
              \cup {"formatURL", "sendRendered", "renderedDone"}
    /\ run \in 1..MaxRuns
    /\ final.ex
    /\ dirMode \in 0..511
    /\ Len(httpLog) <= 3
    /\ Len(cmdLog) <= 3

(* ---------------------------------------------------------------------- *)
(* Properties                                                              *)
(* ---------------------------------------------------------------------- *)

\* installFile has returned to runCommands (and runCommands to runUpdate)
Returned == pc \in {"runUpdate", "failed", "done"}

\* the run is ending with an error: runCommands returned it, or runUpdate did
Failing == pc \in {"runUpdate", "failed"} /\ err # "nil"

\* requests of one step of the pipeline
Requests(step) == {i \in DOMAIN httpLog : httpLog[i][1] = step}

\* responses that carry an HTTP error status
ErrorResponses(step) ==
    {i \in Requests(step) : httpLog[i][2] \in Status \ {200}}

\* the files and the directory are as they were when the run started
FilesUntouched ==
    /\ final = pre.final
    /\ sibling = pre.sibling
    /\ tmp = pre.tmp
    /\ dirMode = pre.dirMode

\* the secret store has not been prompted for, added to or saved
StoreUntouched ==
    /\ prompts = 0
    /\ storeAdds = 0
    /\ storeSaves = 0
    /\ storeEntry = pre.storeEntry

\* C1: at every step of an install, after a failure and after a crash, the
\* file at finalPath is complete: its content is the binary that was there
\* before the run or the whole body of the download response, never an
\* empty or partly copied file.
C1_FinalOldOrComplete ==
    /\ final.ex
    /\ Len(final.data) = BodyLen
    /\ \/ final.data = pre.final.data
       \/ final.data = respBody /\ respBody \in {NewBin, ErrBody}

\* C1 witness: the process was killed while the sibling file was partly
\* copied.
C1_Witness ==
    /\ pc = "crashed"
    /\ sibling.ex
    /\ Len(sibling.data) > 0
    /\ Len(sibling.data) < BodyLen

C4_Original ==
    (pc \in {"failed", "createFailed"}) =>
        /\ cleanupRan
        /\ ~removeFailed => ~tmp.ex

\* C4 amended: an error of a pipeline step is surfaced by runUpdate only
\* after the cleanup handler has run; the temporary file is then gone if the
\* step failed after findExecPaths set its path and the removal did not
\* fail; before that the handler removes nothing. A failure to create the
\* update action is returned without the cleanup handler having run.
C4_CleanupBeforeError ==
    /\ pc = "failed" =>
         /\ cleanupRan
         /\ err # "nil"
         /\ (u_fTmpPath /\ ~removeFailed) => ~tmp.ex
         /\ ~u_fTmpPath => tmp = pre.tmp
    /\ pc = "createFailed" =>
         /\ ~cleanupRan
         /\ tmp = pre.tmp
    /\ cleanupRan => pc = "failed"

\* C4 witness: a download that broke off was removed by the cleanup handler.
C4_Witness ==
    /\ pc = "failed"
    /\ err = "errCopy"
    /\ ~tmp.ex

\* C5: once the resolved version equals the running version the run ends
\* with success and has issued no download request, run no command and left
\* the temporary file, the binary, the sibling file and the directory as
\* they were; a second run in that situation also leaves the secret store
\* as it was.
C5_UpToDateNoEffect ==
    stableRelease = CurrentVersion =>
        /\ pc \in {"isUpToDate", "runUpdate", "done"}
        /\ err = "nil"
        /\ pc # "isUpToDate" => upToDate
        /\ Requests("downloadFile") = {}
        /\ cmdLog = <<>>
        /\ FilesUntouched
        /\ run > 1 => (storeSaves = 0 /\ storeEntry = pre.storeEntry)

\* C5 witness: the second run ended up to date.
C5_Witness ==
    /\ run = 2
    /\ pc = "done"
    /\ upToDate

\* C6: on a host whose OS is not linux or darwin, or whose architecture is
\* not amd64, 386 or arm64, the run ends with the unsupported-platform error
\* with no HTTP request issued, the secret store not read, prompted for or
\* saved, no command run and no file changed.
C6_UnsupportedFailsFirst ==
    (u_os \notin {"", "linux", "darwin"}
     \/ u_arch \notin {"", "amd64", "386", "arm64"}) =>
        /\ Failing
        /\ err = IF u_os \notin {"linux", "darwin"} THEN "errUnsupportedOS"
                                                   ELSE "errUnsupportedArch"
        /\ httpLog = <<>>
        /\ storeReads = 0
        /\ StoreUntouched
        /\ cmdLog = <<>>
        /\ FilesUntouched

\* C6 witness: the run failed on an unsupported architecture.
C6_Witness ==
    /\ pc = "failed"
    /\ err = "errUnsupportedArch"

\* C7 as stated: a 401 answer to the release lookup or to the download ends
\* in the invalid-credentials error, a 404 answer in another error.
C7_Classified ==
    \A i \in ErrorResponses("getStableRelease") \cup ErrorResponses("downloadFile") :
        /\ httpLog[i][2] = 401 => err = "errInvalidCreds"
        /\ httpLog[i][2] = 404 => err \notin {"nil", "errInvalidCreds"}

\* C8 as stated: a response with a status other than 200 is the last thing
\* the pipeline does: the run is failing and no later request was issued.
C8_Non200Terminal ==
    \A i \in DOMAIN httpLog :
        httpLog[i][2] \in Status \ {200} =>
            /\ i = Len(httpLog)
            /\ Failing
            /\ FilesUntouched

\* C9 as stated: after an error status on the download request the run is
\* failing and the temporary file has not been created or written.
C9_NoErrorBodyOnDisk ==
    ErrorResponses("downloadFile") # {} =>
        /\ Failing
        /\ tmp = pre.tmp
        /\ final.data # ErrBody

\* C10 as stated: a lookup error other than not-found ends in the
\* malformed-store error, with no prompt, no entry added, no save and no
\* HTTP request.
C10_Original ==
    lookupErr \notin {"", "nil", "ErrNotFound"} =>
        /\ Failing
        /\ err = "errMalformedKeyring"
        /\ StoreUntouched
        /\ httpLog = <<>>

\* C10 amended: a lookup error other than not-found and empty-passphrase
\* ends in the malformed-store error; the empty-passphrase error is
\* returned as it is; in both cases there is no prompt, no entry added, no
\* save and no HTTP request.
C10_MalformedStore ==
    lookupErr \notin {"", "nil", "ErrNotFound"} =>
        /\ Failing
        /\ err = IF lookupErr = "ErrEmptyPass" THEN "ErrEmptyPass"
                                               ELSE "errMalformedKeyring"
        /\ StoreUntouched
        /\ httpLog = <<>>

\* C10 witness: the store could not be decrypted.
C10_Witness ==
    /\ pc = "failed"
    /\ lookupErr = "ErrDecrypt"
    /\ err = "errMalformedKeyring"

\* C11: when the secret store holds an entry for the repository URL and the
\* lookup returns it, the credentials of the run are exactly the stored
\* user name and password (for the URL that was looked up), nothing is
\* prompted for, nothing is added to the store and the store is not saved.
C11_StoredReturned ==
    (/\ storeReads > 0
     /\ pre.storeEntry # NoCreds
     /\ lookupErr \notin {"ErrEmptyPass", "ErrDecrypt", "ErrCorrupt"})
    => /\ lookupErr = "nil"
       /\ u_c = pre.storeEntry
       /\ prompts = 0
       /\ storeAdds = 0
       /\ storeSaves = 0
       /\ storeEntry = pre.storeEntry

\* the stored credentials were returned to a run that went on
C11_Witness ==
    /\ pc = "findExecPaths"
    /\ lookupErr = "nil"
    /\ u_c = StoredCreds

\* C12: a run creates or modifies no file other than the temporary download
\* file and the final binary; once the run has terminated, with success or
\* with failure, no file exists that did not exist before the run: no staging
\* file is left next to the final binary.
C12_NoLeftoverFile ==
    pc \in {"failed", "done"} => sibling = pre.sibling

\* C13: once a run has terminated nothing it created is left besides the
\* entry of the secret store and the installed binary; the temporary
\* download file does not exist after a successful install.
C13_TmpGoneAfterInstall ==
    (pc = "done" /\ ~upToDate) => ~tmp.ex

\* C14: when the release differs from the running version, the install
\* directory is writable by the current user and every external operation
\* succeeds, the run ends with success, the final binary holds exactly the
\* downloaded artifact and its mode is 0755 (the directory is not changed).
C14_DirectInstall ==
    (pc = "done" /\ ~upToDate /\ ~sudoRequired)
    => /\ err = "nil"
       /\ stableRelease # CurrentVersion
       /\ final = File(respBody, Oct(7, 5, 5))
       /\ (\A i \in DOMAIN httpLog : httpLog[i][2] = 200) => final.data = NewBin
       /\ dirMode = pre.dirMode

\* a direct install of the new release over a binary of mode 0750
C14_Witness ==
    /\ pc = "done"
    /\ ~upToDate
    /\ ~sudoRequired
    /\ \A i \in DOMAIN httpLog : httpLog[i][2] = 200
    /\ pre.final = File(OldBin, Oct(7, 5, 0))
    /\ final = File(NewBin, Oct(7, 5, 5))

\* C15: when the caller gives an explicit target version, version resolution
\* returns that string unchanged and no request is sent to the
\* stable-version endpoint; the endpoint is requested only when no explicit
\* version was given.
C15_ExplicitVersion ==
    /\ targetVersion # "" => Requests("getStableRelease") = {}
    /\ (/\ targetVersion # ""
        /\ pc \in {"isUpToDate"} \cup DownloadPcs \cup InstallPcs)
       => stableRelease = targetVersion
    /\ (targetVersion = "" /\ stableRelease # "")
       => Requests("getStableRelease") # {}

\* an explicit version was installed after two requests: the credential
\* check and the download
C15_Witness ==
    /\ targetVersion = "v_pin"
    /\ pc = "done"
    /\ ~upToDate
    /\ stableRelease = "v_pin"
    /\ Len(httpLog) = 2

\* C16: when the configuration in effect (the external file when one is
\* given, the built-in configuration otherwise) has no repository URL, the
\* initialisation fails with a configuration error before the secret store
\* is read and before any request is sent; the external file, when given,
\* is the configuration that is validated and used.
C16_ConfigFirst ==
    LET effective == IF cfgExternal # "" THEN cfgExternal ELSE cfgBuiltin
        pastConfig == pc \notin {"createUpdateAction", "createFailed", "getOS",
                                 "getArch", "loadConfig"}
    IN  /\ effective # "valid"
           => /\ storeReads = 0
              /\ prompts = 0
              /\ httpLog = <<>>
        /\ (/\ effective # "valid"
            /\ pastConfig
            /\ err \notin {"errUnsupportedOS", "errUnsupportedArch"})
           => /\ Failing
              /\ err \in {"errParseExternalCfg", "errCfgNotSet",
                           "errNotEnoughCfg"}
        /\ storeReads > 0
           => u_cfg = IF cfgExternal # "" THEN "external" ELSE "builtin"

\* an external file without repository_url failed the run although the
\* built-in configuration has one
C16_Witness ==
    /\ pc = "failed"
    /\ cfgExternal = "no_repository_url"
    /\ cfgBuiltin = "valid"
    /\ err = "errParseExternalCfg"
    /\ storeReads = 0
    /\ httpLog = <<>>

\* C17: for every supported architecture, platform detection returns the
\* alias of the release server (x86_64 for 64-bit x86, i386 for 32-bit x86)
\* and the raw identifier otherwise, so the architecture used to build the
\* download URL is one of x86_64, i386, arm64.
C17_ArchAlias ==
    (u_arch # "" /\ err # "errUnsupportedArch")
    => u_arch \in {"x86_64", "i386", "arm64"}

\* C18: the credentials are resolved (the secret store is read, the user is
\* prompted, an entry is stored) only after an authentication probe of the
\* base URL was answered with 401 or 403; after any other outcome of the
\* probe the pipeline goes on without the store and without a prompt.
C18_ProbeFirst ==
    (storeReads > 0 \/ prompts > 0 \/ storeAdds > 0)
    => \E i \in DOMAIN httpLog :
          /\ httpLog[i][1] = "checkAuthRequired"
          /\ httpLog[i][2] \in {401, 403}

\* C19: two runs for the same executable, one after the other or at the
\* same time, have different temporary download paths, so a run never
\* writes to, installs from or removes the temporary download file of
\* another run: a temporary file that existed when the run started is as it
\* was.
C19_OwnTmpOnly ==
    pre.tmp.ex => tmp = pre.tmp

\* C20: the install is direct exactly when the current user owns the
\* directory and its owner-write bit is set, or its group-write bit is set
\* and its group is one of the groups of the user; it is elevated otherwise.
\* On the direct path sudo/doas is never run and the permission bits of the
\* directory are never changed.
C20_DirectIffWritable ==
    LET ownerWrite == (pre.dirMode \div 128) % 2 = 1
        groupWrite == (pre.dirMode \div 16) % 2 = 1
        direct == (dirOwnerIsMe /\ ownerWrite) \/ (groupWrite /\ inDirGroup)
        probed == \/ pc \in InstallPcs \ {"in_probe"}
                  \/ pc = "done" /\ ~upToDate
    IN  /\ probed => (sudoRequired <=> ~direct)
        /\ direct
           => /\ dirMode = pre.dirMode
              /\ \A i \in DOMAIN cmdLog : cmdLog[i][1] \notin {"sudo", "doas"}

\* a direct install by a member of the group of a group-writable directory
C20_Witness ==
    /\ pc = "done"
    /\ ~upToDate
    /\ ~dirOwnerIsMe
    /\ inDirGroup
    /\ ~sudoRequired
    /\ dirMode = Oct(7, 7, 5)
    /\ cmdLog = << <<"chmod", <<7, 5, 5>>, "fPath">> >>

\* C21: within one install the temporary download is opened, the sibling
\* file is created, the content is copied, both files are closed, the
\* sibling is renamed onto the final path and only then the final
\* permissions are set: the sibling is closed before it is renamed and the
\* rename happens only after the copy has completed.
C21_InstallOrder ==
    /\ pc \in {"in_create", "in_copy"} => "src" \in openFiles
    /\ pc = "in_copy" => sibling.ex /\ "dst" \in openFiles
    /\ pc = "in_rename"
       => /\ sibling.ex
          /\ sibling.data = tmp.data
          /\ openFiles = {}
    /\ pc = "in_chmod755"
       => /\ final.data = tmp.data
          /\ ~sibling.ex
          /\ openFiles = {}
    /\ (\E i \in DOMAIN cmdLog : cmdLog[i][Len(cmdLog[i])] = "fPath")
       => /\ final.data = respBody
          /\ ~sibling.ex

\* C22: the steps run in the order platform probe, credential resolution,
\* credential check and release lookup, download, install. A step starts
\* only when every earlier step returned without error (no download before
\* a release was read, no install before the download was complete) and no
\* request, prompt or chmod command is executed a second time.
C22_StepOrder ==
    LET steps == <<"validateCredentials", "getStableRelease", "downloadFile">>
        running == pc \notin {"runUpdate", "in_defer", "createFailed",
                              "failed", "done", "crashed"}
    IN  /\ running => err = "nil"
        /\ Len(httpLog) <= 3
        /\ \A i \in DOMAIN httpLog : httpLog[i][1] = steps[i]
        /\ storeReads <= 1 /\ prompts <= 1 /\ storeAdds <= 1 /\ storeSaves <= 1
        /\ \A i, j \in DOMAIN cmdLog : i # j => cmdLog[i] # cmdLog[j]
        /\ storeReads > 0
           => u_os \in {"linux", "darwin"} /\ u_arch \in {"amd64", "386", "arm64"}
        /\ prompts + storeAdds + storeSaves > 0 => storeReads = 1
        /\ httpLog # <<>> => storeReads = 1 /\ u_fTmpPath
        /\ Len(httpLog) = 3
           => stableRelease # "" /\ stableRelease # CurrentVersion
        /\ pc \in InstallPcs
           => /\ Len(httpLog) = 3
              /\ respBody # <<>>
              /\ tmp = File(respBody, OrExec(CreateMode))
        /\ cmdLog # <<>> => Len(httpLog) = 3

\* a run that prompted once, sent the three requests and installed with the
\* three elevated chmod commands
C22_Witness ==
    /\ pc = "done"
    /\ ~upToDate
    /\ prompts = 1
    /\ Len(httpLog) = 3
    /\ Len(cmdLog) = 3

\* the commands of the run that were run through sudo or doas
Elevated == {i \in DOMAIN cmdLog : cmdLog[i][1] \in {"sudo", "doas"}}

\* C23: every invocation of the elevation command has the argument form
\* [tool, chmod, mode, path], the tool being the one chosen when the action
\* was created; 777 and the captured mode of the directory are applied to
\* the install directory only and 755 to the final binary only.
C23_ElevatedArgv ==
    \A i \in Elevated :
        /\ Len(cmdLog[i]) = 4
        /\ cmdLog[i][1] = u_sudoCmd
        /\ cmdLog[i][2] = "chmod"
        /\ \/ cmdLog[i][3] = <<7, 7, 7>> /\ cmdLog[i][4] = "fDir"
           \/ /\ cmdLog[i][3] = pathPerm
              /\ ParseOctal(pathPerm) = pre.dirMode
              /\ cmdLog[i][4] = "fDir"
           \/ cmdLog[i][3] = <<7, 5, 5>> /\ cmdLog[i][4] = "fPath"

\* an elevated install through doas has run its three commands
C23_Witness ==
    /\ pc = "done"
    /\ u_sudoCmd = "doas"
    /\ Elevated = {1, 2, 3}
    /\ cmdLog[1][4] = "fDir"
    /\ cmdLog[2][4] = "fPath"
    /\ cmdLog[3][4] = "fDir"

\* C24: the elevation tool is chosen once, when the update action is
\* created: sudo whenever sudo is on the PATH, doas only when sudo is absent
\* and doas is present; the choice does not change during the run and every
\* elevated chmod of the run uses that tool.
C24_ToolChosenOnce ==
    /\ pc \notin {"createUpdateAction", "createFailed"} => u_sudoCmd # ""
    /\ u_sudoCmd # ""
       => /\ "sudo" \in onPath => u_sudoCmd = "sudo"
          /\ "sudo" \notin onPath => u_sudoCmd = "doas" /\ "doas" \in onPath
    /\ \A i \in Elevated : cmdLog[i][1] = u_sudoCmd

\* with sudo and doas both on the PATH an elevated install ran through sudo
C24_Witness ==
    /\ pc = "done"
    /\ {"sudo", "doas"} \subseteq onPath
    /\ u_sudoCmd = "sudo"
    /\ Elevated = {1, 2, 3}

\* C25: when a step fails, the error runUpdate returns is exactly the error
\* of that step, whether the cleanup handler found no temporary file,
\* removed it or failed to remove it: a failed removal is only logged, and
\* a failing run never returns success.
C25_ErrorKept ==
    /\ [](pc = "failed" => err # "nil" /\ cleanupRan)
    /\ [](pc = "done" => err = "nil" /\ ~cleanupRan /\ ~removeFailed)
    /\ [][err # "nil" => err' = err]_vars

\* the removal of the temporary file failed and the error of the install
\* is the one returned
C25_Witness ==
    /\ pc = "failed"
    /\ removeFailed
    /\ tmp.ex
    /\ err = "errRename"

\* C26: when the secret store has no entry for the repository URL, the
\* entry is built from the user name and password of the command line, the
\* user is prompted only if one of them is empty, the entry is added to the
\* store and the store is saved if and only if it exists; the credentials
\* of the run are the new entry. An 'empty passphrase' error of the store
\* is returned unchanged, without a prompt and without an added entry.
C26_NewEntry ==
    [][(pc = "getCredentials" /\ pc' # "getCredentials")
       => LET needTty == u_c.user = "" \/ u_c.pass = ""
              entry == [user |-> IF u_c.user = "" THEN "tty_user"
                                                  ELSE u_c.user,
                        pass |-> IF u_c.pass = "" THEN "tty_pass"
                                                  ELSE u_c.pass]
          IN  /\ lookupErr' = "ErrNotFound"
                 => /\ storeEntry = NoCreds
                    /\ prompts' = IF needTty THEN 1 ELSE 0
                    /\ storeAdds' = IF err' = "errTty" THEN 0 ELSE 1
                    /\ storeSaves' = IF storeExists /\ err' \in {"nil", "errSave"}
                                     THEN 1 ELSE 0
                    /\ err' = "nil"
                       => /\ u_c' = entry
                          /\ storeEntry' = IF storeExists THEN entry
                                                           ELSE NoCreds
              /\ lookupErr' = "ErrEmptyPass"
                 => /\ err' = "ErrEmptyPass"
                    /\ prompts' = 0
                    /\ storeAdds' = 0
                    /\ storeSaves' = 0
                    /\ UNCHANGED <<u_c, storeEntry>>]_vars

\* the user gave a name only, was asked for the password, and the new entry
\* was added and saved
C26_Witness ==
    /\ pc = "findExecPaths"
    /\ lookupErr = "ErrNotFound"
    /\ u_c = [user |-> "cli_user", pass |-> "tty_pass"]
    /\ prompts = 1
    /\ storeAdds = 1
    /\ storeSaves = 1
    /\ storeEntry = u_c

\* formatURL has returned
Formatted == pc \in {"sendRendered", "renderedDone"}

\* s is t with white space added at its ends
TrimmedTo(s, t) ==
    \E a \in 0..Len(s) : \E b \in a..Len(s) :
        /\ t = SubSeq(s, a + 1, b)
        /\ \A i \in (1..a) \cup ((b + 1)..Len(s)) : s[i] \in ControlTokens

\* a well-formed absolute http or https URL
WellFormed(url) ==
    /\ \A i \in DOMAIN url : url[i] \notin ControlTokens \cup {"%zz"}
    /\ Len(url) >= 2
    /\ url[1] \in HttpSchemes
    /\ url[2] = "//h"

C28_RestoreNotReturned ==
    /\ [][(pc = "in_defer" /\ pc' = "runUpdate") =>
            /\ err' = err
            /\ cmdLog' # cmdLog
            /\ <<final, sibling, tmp>>' = <<final, sibling, tmp>>
            /\ restoreFailed' => dirMode' = ParseOctal(Mode777)]_vars
    /\ []((Returned /\ restoreFailed) =>
            /\ dirMode = ParseOctal(Mode777)
            /\ pc = "done" => err = "nil" /\ ~cleanupRan)

\* C28 witness: the run reported success with the new binary installed and
\* the directory left at 777.
C28_Witness ==
    /\ pc = "done"
    /\ err = "nil"
    /\ restoreFailed
    /\ dirMode = ParseOctal(Mode777)
    /\ dirMode # pre.dirMode
    /\ final.data = NewBin

\* errors installFile returns from the steps up to and including the rename
BeforeRenameErrors ==
    {"errProbe", "errOpen", "errStatDir", "errChmod777", "errCreate",
     "errCopyInstall", "errRename"}

\* C29: when installFile returns an error of a step up to and including the
\* rename, the file at u.fPath is as it was before the run; a run that reports
\* failure with the content of u.fPath changed is a run whose final chmod 755
\* failed after the rename: the cleanup handler has run and u.fPath holds
\* what was downloaded.
C29_FinalKeptUnlessChmod ==
    /\ (Returned /\ err \in BeforeRenameErrors) => final = pre.final
    /\ (Failing /\ err # "errChmod755") => final = pre.final
    /\ (Failing /\ err = "errChmod755") =>
          /\ final.data = respBody
          /\ ~sibling.ex
    /\ (pc = "failed" /\ final # pre.final) =>
          /\ err = "errChmod755"
          /\ cleanupRan

\* C29 witness: the chmod 755 failed after the rename; the run reported the
\* failure with the new binary in place.
C29_Witness ==
    /\ pc = "failed"
    /\ err = "errChmod755"
    /\ cleanupRan
    /\ final.data = NewBin
    /\ final.data # pre.final.data

\* sudo and doas are both missing from the PATH, or chmod is
ToolsMissing == {"sudo", "doas"} \cap onPath = {} \/ "chmod" \notin onPath

\* C30: when neither sudo nor doas is on the PATH, or chmod is not, creating
\* the update action fails, whether or not the directory of the binary is
\* writable, and no step of the pipeline runs: no request is issued, the
\* secret store is not read or changed, nothing is prompted for, no command
\* is run, no file is created or modified and the cleanup handler is not
\* called; with the tools present the creation does not fail.
C30_NoToolsNoRun ==
    /\ ToolsMissing =>
          /\ pc \in {"createUpdateAction", "createFailed"}
          /\ httpLog = <<>>
          /\ cmdLog = <<>>
          /\ storeReads = 0
          /\ StoreUntouched
          /\ FilesUntouched
          /\ ~cleanupRan
          /\ u_sudoCmd = ""
    /\ pc = "createFailed" =>
          /\ ToolsMissing
          /\ err \in {"errNoSudoDoas", "errNoChmod"}
          /\ err = "errNoChmod" <=> {"sudo", "doas"} \cap onPath # {}

\* C30 witness: the creation failed for a missing chmod although the user may
\* write to the directory of the binary.
C30_Witness ==
    /\ pc = "createFailed"
    /\ err = "errNoChmod"
    /\ HasWritePermissions(dirMode, dirOwnerIsMe, inDirGroup)

\* C31: when the secret store holds an entry for the repository URL and the
\* lookup returns it, the user name and password of the command line are
\* dropped: the credentials of the run are the stored pair, every request of
\* the run carries the stored pair, and the run does not prompt, add to the
\* store or save it, nor change the stored entry, also after a 401.
C31_StoredPairOnly ==
    (/\ storeReads > 0
     /\ pre.storeEntry # NoCreds
     /\ lookupErr = "nil")
    => /\ u_c = pre.storeEntry
       /\ \A i \in DOMAIN httpLog : httpLog[i][3] = pre.storeEntry
       /\ prompts = 0
       /\ storeAdds = 0
       /\ storeSaves = 0
       /\ storeEntry = pre.storeEntry
       /\ (\E i \in DOMAIN httpLog : httpLog[i][2] = 401 /\ i = 1)
             => Failing /\ err = "errInvalidCreds"

\* C31 witness: a user name and a password were given on the command line,
\* the stored pair was sent and rejected with 401, the store is as it was
C31_Witness ==
    /\ pc = "failed"
    /\ cliFlags = [user |-> "cli_user", pass |-> "cli_pass"]
    /\ err = "errInvalidCreds"
    /\ httpLog = << <<"validateCredentials", 401, StoredCreds>> >>
    /\ storeEntry = StoredCreds
    /\ storeSaves = 0

====
